---------------------------- MODULE Spec2Model ----------------------------
(***************************************************************************)
(* plyflatten: projection of a point cloud onto a raster grid.             *)
(*                                                                         *)
(* The module models plyflatten/rasterization.py: the two Python functions *)
(* plyflatten_from_plyfiles_list and plyflatten, and the native routine    *)
(* rasterize_cloud that plyflatten calls through ctypes.  The native       *)
(* routine lives in libplyflatten.so, whose source is not part of the      *)
(* Python file; it is modelled from sections 4.2 and 5 of the design       *)
(* document.                                                               *)
(*                                                                         *)
(* Numbers.  Coordinates and the resolution are counted in tenths: the     *)
(* point (0.5, 0.5) is <<5, 5>> and resolution 1 is 10.  The float64       *)
(* arithmetic of lines 123-127 is binary floating point with a mantissa of *)
(* Precision bits, every operation rounding to nearest, ties to even; the  *)
(* inputs are numbers that this format holds exactly.  A raster value is   *)
(* either NaN or a reduced fraction <<num, den>>.                          *)
(***************************************************************************)
EXTENDS Integers, Sequences, FiniteSets, TLC

VARIABLES
    pc,           \* position in plyflatten_from_plyfiles_list / plyflatten
    exc,          \* the exception raised, "" when none
    clouds_list,  \* argument: the clouds read from the .ply files
    ncols,        \* number of columns of every cloud (2 + nb_extra_columns)
    resolution,   \* argument
    given,        \* radius and sigma as the caller passed them
    radius,       \* parameter, the default bound when it was omitted
    roi,          \* argument: None or <<xoff, yoff, xsize, ysize>>
    sigma,        \* parameter: None, <<"inf">> or <<"fin", s>>
    std,          \* argument
    full_cloud,   \* local of plyflatten_from_plyfiles_list
    extrema,      \* None, or <<xmin, xmax, ymin, ymax>> once computed
    xoff, yoff, xsize, ysize,
    raster,       \* flat buffer, index row * xsize + col, one entry per channel
    raster_std,   \* flat buffer of the standard deviations
    ret,          \* the array plyflatten returns
    profile,      \* the rasterio profile
    bands,        \* rasterize_cloud: the row-bands of the workers
    nextcell,     \* rasterize_cloud: per worker, cells of its band already done
    writes        \* rasterize_cloud: per cell, how many times it was written

vars == <<pc, exc, clouds_list, ncols, resolution, given, radius, roi, sigma, std,
          full_cloud, extrema, xoff, yoff, xsize, ysize, raster, raster_std,
          ret, profile, bands, nextcell, writes>>

args == <<clouds_list, ncols, resolution, given, radius, roi, std>>

-----------------------------------------------------------------------------
(* Bounds of the model *)

MaxPoints == 2      \* points of all the clouds of one call
MaxRadius == 1      \* largest radius argument (cells)
NWorkers == 2       \* largest number of worker threads of the kernel
Precision == 4      \* bits of the mantissa of a floating-point number

-----------------------------------------------------------------------------
(* Values *)

None == <<>>
Omitted == <<>>
NaN == <<>>
Inf == <<"inf">>
Finite(s) == <<"fin", s>>
IsInf(s) == s[1] = "inf"

RECURSIVE GCD(_, _)
GCD(a, b) == IF b = 0 THEN a ELSE GCD(b, a % b)

Abs(a) == IF a < 0 THEN -a ELSE a

\* The fraction n / d (d > 0) in lowest terms.
Frac(n, d) == LET g == GCD(Abs(n), d) IN <<n \div g, d \div g>>

Zero == <<0, 1>>

\* floor(a / b) of the exact quotient, b # 0
FloorDiv(a, b) == IF b > 0 THEN a \div b ELSE (-a) \div (-b)

RECURSIVE Pow2(_)
Pow2(k) == IF k = 0 THEN 1 ELSE 2 * Pow2(k - 1)

\* n / d, n > 0 and d > 0, scaled by the power of two s that brings it into
\* [2^(Precision - 1), 2^Precision): <<n', d', s>> with n / d = n' / d' * 2^s.
RECURSIVE Normalise(_, _, _)
Normalise(n, d, s) ==
    IF n >= Pow2(Precision) * d THEN Normalise(n, 2 * d, s + 1)
    ELSE IF n < Pow2(Precision - 1) * d THEN Normalise(2 * n, d, s - 1)
    ELSE <<n, d, s>>

\* The integer nearest to n / d, ties to even.
NearestEven(n, d) ==
    LET q == n \div d
        r == n % d
    IN  IF 2 * r > d \/ (2 * r = d /\ q % 2 = 1) THEN q + 1 ELSE q

\* The floating-point number nearest to n / d, d > 0, as a fraction.
RoundFloat(n, d) ==
    IF n = 0 THEN <<0, 1>>
    ELSE LET t == Normalise(Abs(n), d, 0)
             m == NearestEven(t[1], t[2]) * (IF n < 0 THEN -1 ELSE 1)
         IN  IF t[3] >= 0 THEN <<m * Pow2(t[3]), 1>>
             ELSE Frac(m, Pow2(-t[3]))

\* a / b, a * b, a - b and a + b in floating point, on integral a and b;
\* the products, differences and sums of integers round to integers.
FDiv(a, b) == IF b > 0 THEN RoundFloat(a, b) ELSE RoundFloat(-a, -b)
FMul(a, b) == RoundFloat(a * b, 1)[1]
FSub(a, b) == RoundFloat(a - b, 1)[1]
FAdd(a, b) == RoundFloat(a + b, 1)[1]

\* np.floor and np.ceil of a floating-point number
Floor(q) == q[1] \div q[2]
Ceil(q) == -((-q[1]) \div q[2])

RECURSIVE SumTo(_, _)
SumTo(f, n) == IF n = 0 THEN 0 ELSE f[n] + SumTo(f, n - 1)

RECURSIVE Concatenate(_)
Concatenate(list) ==
    IF Len(list) = 0 THEN <<>> ELSE Head(list) \o Concatenate(Tail(list))

RECURSIVE AMin(_)
AMin(s) == IF Len(s) = 1 THEN s[1]
           ELSE LET m == AMin(Tail(s)) IN IF s[1] < m THEN s[1] ELSE m

RECURSIVE AMax(_)
AMax(s) == IF Len(s) = 1 THEN s[1]
           ELSE LET m == AMax(Tail(s)) IN IF s[1] > m THEN s[1] ELSE m

Column(cloud, j) == [i \in 1..Len(cloud) |-> cloud[i][j]]

-----------------------------------------------------------------------------
(* plyflatten_from_plyfiles_list: lines 88-146 *)

Raise(e) ==
    /\ pc' = "raised"
    /\ exc' = e

\* Mutant: the default radius is not 0.
DefaultRadiusWide == MaxRadius

\* Line 89: radius=0
DefaultRadius == 0

\* Lines 104-110.  np.concatenate raises ValueError on an empty list of
\* arrays.
ReadClouds ==
    /\ pc = "start"
    /\ IF Len(clouds_list) = 0
       THEN Raise("ValueError") /\ UNCHANGED full_cloud
       ELSE /\ full_cloud' = Concatenate(clouds_list)
            /\ pc' = "roi"
            /\ UNCHANGED exc
    /\ UNCHANGED <<args, sigma, extrema, xoff, yoff, xsize, ysize, raster,
                   raster_std, ret, profile, bands, nextcell, writes>>

\* Mutants of the region arithmetic: the ceiling of yoff taken as a floor,
\* xsize as a ceiling without the added cell, ysize computed as xsize is.
ComputeYoffFloor(ymax, res) == FMul(Floor(FDiv(ymax, res)), res)
ComputeYsizeAsXsize(ymin, yo, res) ==
    FAdd(1, Floor(FDiv(FSub(yo, ymin), res)))

\* Lines 123-127
ComputeXoff(xmin, res) == FMul(Floor(FDiv(xmin, res)), res)
ComputeXsize(xmax, xo, res) == FAdd(1, Floor(FDiv(FSub(xmax, xo), res)))
ComputeYoff(ymax, res) == FMul(Ceil(FDiv(ymax, res)), res)
ComputeYsize(ymin, yo, res) == FSub(1, Floor(FDiv(FSub(ymin, yo), res)))

\* Lines 116-121
ComputeExtrema(cloud) ==
    <<AMin(Column(cloud, 1)), AMax(Column(cloud, 1)),
      AMin(Column(cloud, 2)), AMax(Column(cloud, 2))>>

\* Lines 112-127.  With roi = None: full_cloud[:, 1] raises IndexError on a
\* one-column cloud, np.amin raises ValueError on zero points, and with
\* resolution = 0 the divisions give inf or nan, xoff is nan and int(nan)
\* raises ValueError.
RegionOfInterest ==
    /\ pc = "roi"
    /\ IF roi # None
       THEN /\ xoff' = roi[1]
            /\ yoff' = roi[2]
            /\ xsize' = roi[3]
            /\ ysize' = roi[4]
            /\ pc' = "call"
            /\ UNCHANGED <<exc, extrema>>
       ELSE IF ncols < 2
       THEN Raise("IndexError") /\ UNCHANGED <<extrema, xoff, yoff, xsize, ysize>>
       ELSE IF Len(full_cloud) = 0
       THEN Raise("ValueError") /\ UNCHANGED <<extrema, xoff, yoff, xsize, ysize>>
       ELSE LET e == ComputeExtrema(full_cloud) IN
            /\ extrema' = e
            /\ IF resolution = 0
               THEN Raise("ValueError") /\ UNCHANGED <<xoff, yoff, xsize, ysize>>
               ELSE LET xo == ComputeXoff(e[1], resolution)
                        yo == ComputeYoff(e[4], resolution)
                    IN  /\ xoff' = xo
                        /\ xsize' = ComputeXsize(e[2], xo, resolution)
                        /\ yoff' = yo
                        /\ ysize' = ComputeYsize(e[3], yo, resolution)
                        /\ pc' = "call"
                        /\ UNCHANGED exc
    /\ UNCHANGED <<args, sigma, full_cloud, raster, raster_std, ret,
                   profile, bands, nextcell, writes>>

\* Mutant: a call without sigma gets a finite one.
DefaultSigmaFinite(s) == IF s = None THEN Finite(1) ELSE s

\* Line 131
DefaultSigma(s) == IF s = None THEN Inf ELSE s

\* Line 42
NbExtraColumns == ncols - 2

\* Line 43: raster_shape = (xsize * ysize, nb_extra_columns)
RasterShape == <<xsize * ysize, NbExtraColumns>>

\* np.zeros(raster_shape, dtype="float32"), lines 62-63
Zeros(shape) == [i \in 1..shape[1] |-> [ch \in 1..shape[2] |-> Zero]]

\* Lines 129-132 and 42-63: the copy, the default sigma, the call of
\* plyflatten and the allocation of the two output buffers.  np.zeros
\* raises ValueError on a negative dimension.
CallPlyflatten ==
    /\ pc = "call"
    /\ sigma' = DefaultSigma(sigma)
    /\ IF RasterShape[1] < 0 \/ RasterShape[2] < 0
       THEN Raise("ValueError") /\ UNCHANGED <<raster, raster_std>>
       ELSE /\ raster' = Zeros(RasterShape)
            /\ raster_std' = Zeros(RasterShape)
            /\ pc' = "kernel"
            /\ UNCHANGED exc
    /\ UNCHANGED <<args, full_cloud, extrema, xoff, yoff, xsize, ysize,
                   ret, profile, bands, nextcell, writes>>

-----------------------------------------------------------------------------
(* rasterize_cloud: the native kernel, design document sections 4.2 and 5 *)

\* Lines 64-77: the arguments of the call, in the order of the argtypes.
Passed ==
    [input_buffer |-> full_cloud,
     nb_points |-> Len(full_cloud),
     nb_extra_columns |-> NbExtraColumns,
     xoff |-> xoff,
     yoff |-> yoff,
     resolution |-> resolution,
     xsize |-> xsize,
     ysize |-> ysize,
     radius |-> radius,
     sigma |-> sigma]

\* Step 2, cell assignment: floor division of the offset coordinates.
EnclosingCell(a, p) ==
    <<FloorDiv(a.yoff - p[2], a.resolution),
      FloorDiv(p[1] - a.xoff, a.resolution)>>

\* Step 1: the cell center, doubled so that the half cell stays an integer:
\* 2 * cx = 2 * xoff + (2 * col + 1) * resolution.
Center2(a, row, col) ==
    <<2 * a.xoff + (2 * col + 1) * a.resolution,
      2 * a.yoff - (2 * row + 1) * a.resolution>>

\* (2 * distance)^2 between a point and a cell center.
Dist2(a, p, row, col) ==
    LET c == Center2(a, row, col)
    IN  (2 * p[1] - c[1]) * (2 * p[1] - c[1])
        + (2 * p[2] - c[2]) * (2 * p[2] - c[2])

\* Step 2, candidate selection: distance / resolution <= radius, and for
\* radius = 0 the points whose enclosing cell is (row, col).
Contributes(a, p, row, col) ==
    IF a.radius = 0
    THEN EnclosingCell(a, p) = <<row, col>>
    ELSE Dist2(a, p, row, col)
            <= 4 * a.radius * a.radius * a.resolution * a.resolution

\* exp(-n / d) in 64ths.  The exponential is evaluated as
\* 1 / (1 + x + x^2 / 2), which is 1 at x = 0, strictly decreasing and
\* positive as exp(-x) is.
ExpNeg(n, d) == (64 * 2 * d * d) \div (2 * d * d + 2 * n * d + n * n)

\* Step 3: the weight, in 64ths; (distance / resolution)^2 / (2 sigma^2) is
\* Dist2 / (8 resolution^2 sigma^2).
Weight(a, p, row, col) ==
    IF IsInf(a.sigma)
    THEN 64
    ELSE ExpNeg(Dist2(a, p, row, col),
                8 * a.resolution * a.resolution * a.sigma[2] * a.sigma[2])

\* The points of the cloud that contribute to the cell.
Contributors(a, row, col) ==
    {i \in 1..a.nb_points : Contributes(a, a.input_buffer[i], row, col)}

\* The weight of each point in the cell, 0 when it does not contribute.
CellWeights(a, row, col) ==
    [i \in 1..a.nb_points |->
        IF i \in Contributors(a, row, col)
        THEN Weight(a, a.input_buffer[i], row, col) ELSE 0]

\* Steps 4 and 5: the weighted mean of channel ch, NaN for an empty cell.
CellMean(a, row, col, ch) ==
    LET w == CellWeights(a, row, col)
        sw == SumTo(w, a.nb_points)
        swv == SumTo([i \in 1..a.nb_points |-> w[i] * a.input_buffer[i][2 + ch]],
                     a.nb_points)
    IN  IF sw = 0 THEN NaN ELSE Frac(swv, sw)

\* Steps 4 and 5: the weighted variance of channel ch, of which the
\* standard deviation is the square root; NaN for an empty cell.  With
\* mean = mn / md it is sum(w * (v * md - mn)^2) / (md^2 * sum(w)).
CellStd(a, row, col, ch) ==
    LET w == CellWeights(a, row, col)
        sw == SumTo(w, a.nb_points)
        m == CellMean(a, row, col, ch)
    IN  IF sw = 0 THEN NaN
        ELSE Frac(SumTo([i \in 1..a.nb_points |->
                            w[i] * (a.input_buffer[i][2 + ch] * m[2] - m[1])
                                 * (a.input_buffer[i][2 + ch] * m[2] - m[1])],
                        a.nb_points),
                  m[2] * m[2] * sw)

\* The cell at a flat index, from 1, of the output buffers.
RowOf(a, idx) == (idx - 1) \div a.xsize
ColOf(a, idx) == (idx - 1) % a.xsize

MeanCell(a, idx) ==
    [ch \in 1..a.nb_extra_columns |->
        CellMean(a, RowOf(a, idx), ColOf(a, idx), ch)]

StdCell(a, idx) ==
    [ch \in 1..a.nb_extra_columns |->
        CellStd(a, RowOf(a, idx), ColOf(a, idx), ch)]

\* The two rasters of a run by one thread.
Rasterize(a) ==
    [mean |-> [i \in 1..a.xsize * a.ysize |-> MeanCell(a, i)],
     std |-> [i \in 1..a.xsize * a.ysize |-> StdCell(a, i)]]

\* The inputs the kernel is specified for.
KernelDefined(a) ==
    /\ a.resolution > 0
    /\ a.radius >= 0
    /\ IsInf(a.sigma) \/ a.sigma[2] > 0
    /\ a.xsize > 0
    /\ a.ysize > 0

\* Lines 64-77: the call of rasterize_cloud, run by one thread.  Outside the
\* inputs it is specified for the routine's behaviour is not defined.
rasterize_cloud ==
    /\ pc = "kernel"
    /\ IF KernelDefined(Passed)
       THEN /\ raster' = Rasterize(Passed).mean
            /\ raster_std' = Rasterize(Passed).std
            /\ pc' = "reshape"
       ELSE /\ pc' = "undefined"
            /\ UNCHANGED <<raster, raster_std>>
    /\ UNCHANGED <<exc, args, sigma, full_cloud, extrema, xoff, yoff,
                   xsize, ysize, ret, profile, bands, nextcell, writes>>

\* Section 5: the cell grid is cut into n row-bands, one worker per band;
\* band w holds the rows cut[w - 1] .. cut[w] - 1.
BandChoices(n, rows) ==
    {[w \in 1..n |-> <<IF w = 1 THEN 0 ELSE cut[w - 1],
                       IF w = n THEN rows ELSE cut[w]>>] :
        cut \in {c \in [1..n - 1 -> 0..rows] :
                    \A w \in 1..n - 2 : c[w] <= c[w + 1]}}

\* Mutant: a worker stops one cell short of the end of its band.
NumCellsShort(band) == (band[2] - band[1]) * xsize - 1

\* The cells of a band, in the buffers' order.
FirstCell(band) == band[1] * xsize + 1
NumCells(band) == (band[2] - band[1]) * xsize

\* The call of rasterize_cloud, run by workers: the bands are handed out.
Fork ==
    /\ pc = "kernel"
    /\ IF KernelDefined(Passed)
       THEN /\ \E n \in 1..NWorkers : bands' \in BandChoices(n, ysize)
            /\ nextcell' = [w \in 1..Len(bands') |-> 0]
            /\ writes' = [i \in 1..xsize * ysize |-> <<>>]
            /\ pc' = "workers"
       ELSE /\ pc' = "undefined"
            /\ UNCHANGED <<bands, nextcell, writes>>
    /\ UNCHANGED <<exc, args, sigma, full_cloud, extrema, xoff, yoff,
                   xsize, ysize, raster, raster_std, ret, profile>>

\* Worker w computes the next cell of its band and stores it.
WorkerStep(w) ==
    /\ pc = "workers"
    /\ w <= Len(bands)
    /\ nextcell[w] < NumCells(bands[w])
    /\ LET idx == FirstCell(bands[w]) + nextcell[w]
       IN  /\ raster' = [raster EXCEPT ![idx] = MeanCell(Passed, idx)]
           /\ raster_std' = [raster_std EXCEPT ![idx] = StdCell(Passed, idx)]
           /\ writes' = [writes EXCEPT ![idx] = Append(@, w)]
    /\ nextcell' = [nextcell EXCEPT ![w] = @ + 1]
    /\ UNCHANGED <<pc, exc, args, sigma, full_cloud, extrema, xoff, yoff,
                   xsize, ysize, ret, profile, bands>>

\* The barrier before rasterize_cloud returns.
Join ==
    /\ pc = "workers"
    /\ \A w \in 1..Len(bands) : nextcell[w] = NumCells(bands[w])
    /\ pc' = "reshape"
    /\ UNCHANGED <<exc, args, sigma, full_cloud, extrema, xoff, yoff,
                   xsize, ysize, raster, raster_std, ret, profile, bands,
                   nextcell, writes>>

-----------------------------------------------------------------------------
(* plyflatten: lines 79-85, and the rest of plyflatten_from_plyfiles_list *)

\* Mutant: the buffer read column by column.
ReshapeTransposed(buf) ==
    [shape |-> <<ysize, xsize, NbExtraColumns>>,
     data |-> [r \in 0..ysize - 1 |->
                 [c \in 0..xsize - 1 |-> buf[c * ysize + r + 1]]]]

\* raster.reshape((ysize, xsize, nb_extra_columns)), line 80
Reshape(buf) ==
    [shape |-> <<ysize, xsize, NbExtraColumns>>,
     data |-> [r \in 0..ysize - 1 |->
                 [c \in 0..xsize - 1 |-> buf[r * xsize + c + 1]]]]

\* Lines 79-85.  With std the code calls raster.dstack(...): a numpy array
\* has no dstack method, so the attribute lookup raises AttributeError.
PlyflattenReturn ==
    /\ pc = "reshape"
    /\ IF std
       THEN Raise("AttributeError") /\ UNCHANGED ret
       ELSE /\ ret' = Reshape(raster)
            /\ pc' = "profile"
            /\ UNCHANGED exc
    /\ UNCHANGED <<args, sigma, full_cloud, extrema, xoff, yoff,
                   xsize, ysize, raster, raster_std, profile, bands,
                   nextcell, writes>>

\* Lines 134-146
BuildProfile ==
    /\ pc = "profile"
    /\ profile' = [nodata |-> NaN,
                   transform |-> <<resolution, 0, xoff, 0, -resolution, yoff>>]
    /\ pc' = "done"
    /\ UNCHANGED <<exc, args, sigma, full_cloud, extrema, xoff, yoff,
                   xsize, ysize, raster, raster_std, ret, bands, nextcell,
                   writes>>

-----------------------------------------------------------------------------
(* The calls checked *)

\* The rows of a point: x, y and up to two channels.
Row(p, n) == SubSeq(<<p[1], p[2], p[3], 30 - p[3]>>, 1, n)

\* The sequences of at most n elements of S.
RECURSIVE SeqsUpTo(_, _)
SeqsUpTo(S, n) ==
    IF n = 0 THEN {<<>>}
    ELSE LET shorter == SeqsUpTo(S, n - 1)
         IN  shorter \cup {Append(s, x) : s \in shorter, x \in S}

\* The ways the .ply files can hold a cloud: no file, one file, or two
\* files that split it.
Files(cloud) ==
    {<<>>, <<cloud>>}
    \cup {<<SubSeq(cloud, 1, k), SubSeq(cloud, k + 1, Len(cloud))>> :
            k \in 0..Len(cloud)}

InitWith(FileLists, Cols, Resolutions, Radii, Rois, Sigmas, Stds) ==
    /\ pc = "start"
    /\ exc = ""
    /\ ncols \in Cols
    /\ \E c \in FileLists : clouds_list = [i \in 1..Len(c) |->
                             [j \in 1..Len(c[i]) |-> Row(c[i][j], ncols)]]
    /\ resolution \in Resolutions
    /\ given \in [radius : Radii, sigma : Sigmas]
    /\ radius = (IF given.radius = Omitted THEN DefaultRadius
                 ELSE given.radius[1])
    /\ sigma = given.sigma
    /\ roi \in Rois
    /\ std \in Stds
    /\ full_cloud = None
    /\ extrema = None
    /\ xoff = None /\ yoff = None /\ xsize = None /\ ysize = None
    /\ raster = None /\ raster_std = None
    /\ ret = None
    /\ profile = None
    /\ bands = None /\ nextcell = None /\ writes = None

Next ==
    \/ ReadClouds
    \/ RegionOfInterest
    \/ CallPlyflatten
    \/ rasterize_cloud
    \/ PlyflattenReturn
    \/ BuildProfile

\* Every file list that holds a cloud of at most MaxPoints points of S.
AllFiles(S) == UNION {Files(c) : c \in SeqsUpTo(S, MaxPoints)}

\* The same clouds, each in one file.
OneFile(S) == {<<c>> : c \in SeqsUpTo(S, MaxPoints)}

RadiusArgs == {Omitted} \cup {<<r>> : r \in -1..MaxRadius}
ValidRadiusArgs == {Omitted} \cup {<<r>> : r \in 0..MaxRadius}
SigmaArgs == {None, Inf, Finite(0), Finite(1)}
ValidSigmaArgs == {None, Inf, Finite(1)}

\* Any call, valid or not, on a few clouds.
Init ==
    InitWith(AllFiles({<<5, 5, 10>>, <<-5, 12, 20>>}),
             {1, 2, 3},
             {-10, 0, 10},
             RadiusArgs,
             {None, <<0, 10, 1, 1>>, <<0, 10, 0, 1>>, <<0, 10, -1, 1>>,
              <<0, 10, -1, -1>>},
             SigmaArgs,
             BOOLEAN)

Spec == Init /\ [][Next]_vars

\* Valid calls on the clouds of a grid of positions: the region of interest.
RoiXs == {-5, 3, 10, 26}
RoiYs == {-5, 3, 10}

InitRoi ==
    InitWith(AllFiles({<<x, y, 10>> : x \in RoiXs, y \in RoiYs}),
             {3},
             {3, 10},
             {Omitted},
             {None, <<0, 10, 1, 1>>},
             {None},
             {FALSE})

SpecRoi == InitRoi /\ [][Next]_vars

\* The same calls with the kernel run by workers.
NextPar ==
    \/ ReadClouds
    \/ RegionOfInterest
    \/ CallPlyflatten
    \/ Fork
    \/ \E w \in 1..NWorkers : WorkerStep(w)
    \/ Join
    \/ PlyflattenReturn
    \/ BuildProfile

InitPar ==
    InitWith(OneFile({<<5, 5, 10>>, <<-5, -5, 20>>}),
             {3},
             {10},
             ValidRadiusArgs,
             {None, <<0, 10, 2, 2>>},
             {None, Finite(1)},
             BOOLEAN)

SpecPar == InitPar /\ [][NextPar]_vars

\* Valid calls of the kernel: a point at a cell center, two points off the
\* center of the same cell, a point one cell away and a point two cells
\* away from it.
KernelPoints ==
    {<<5, 5, 10>>, <<3, 3, 10>>, <<7, 7, 20>>, <<-5, 5, 20>>, <<24, 5, 20>>}

InitKernel ==
    InitWith(OneFile(KernelPoints),
             {3, 4},
             {10},
             ValidRadiusArgs,
             {None, <<0, 10, 1, 1>>, <<0, 10, 2, 2>>},
             ValidSigmaArgs,
             BOOLEAN)

SpecKernel == InitKernel /\ [][Next]_vars

-----------------------------------------------------------------------------
(* Properties *)

\* The points of all the input clouds.
InputPoints ==
    UNION {{clouds_list[f][i] : i \in 1..Len(clouds_list[f])} :
              f \in 1..Len(clouds_list)}

NbInputPoints == SumTo([f \in 1..Len(clouds_list) |-> Len(clouds_list[f])],
                       Len(clouds_list))

\* The calls the design document takes as valid: a table of at least two
\* columns, resolution > 0, radius >= 0, sigma infinite or positive, and
\* either a region of positive size or at least one point to derive it from.
ValidArgs ==
    /\ Len(clouds_list) > 0
    /\ ncols >= 2
    /\ resolution > 0
    /\ radius >= 0
    /\ given.sigma \in {None, Inf} \/ given.sigma[2] > 0
    /\ IF roi = None THEN NbInputPoints >= 1 ELSE roi[3] > 0 /\ roi[4] > 0

\* C3: for any valid input plyflatten returns normally, with an array of
\* shape (ysize, xsize, n), n = nb_extra_columns without std and
\* 2 * nb_extra_columns with std.
C3_ReturnsShape ==
    ValidArgs =>
        /\ pc # "raised"
        /\ pc \in {"profile", "done"} =>
              ret.shape = <<ysize, xsize,
                            IF std THEN 2 * NbExtraColumns ELSE NbExtraColumns>>

\* C4: every invalid condition is reported before the kernel is invoked: no
\* invalid input reaches the call of rasterize_cloud.
C4_FailFast == pc = "kernel" => ValidArgs

\* The region of interest is known: lines 112-127 have run without raising.
RoiKnown == pc \in {"call", "kernel", "reshape", "undefined", "profile", "done"}

\* m is the least (greatest) of the values S.
IsLeast(m, S) == m \in S /\ \A v \in S : m <= v
IsGreatest(m, S) == m \in S /\ \A v \in S : v <= m

\* q = floor(v / res), for res > 0, by its bounds.
IsFloor(q, v, res) == q * res <= v /\ v < (q + 1) * res

\* C1: with roi = None, at least one point and resolution > 0, the region
\* derived is xoff = floor(xmin / resolution) * resolution, xsize = 1 +
\* floor((xmax - xoff) / resolution), yoff = ceil(ymax / resolution) *
\* resolution, ysize = 1 - floor((ymin - yoff) / resolution), in the
\* arithmetic of the program, the extrema being those of all the points of
\* all the input clouds; with a roi supplied, the four values are those of
\* roi and no extrema are computed.
C1_RoiDerivation ==
    (RoiKnown /\ resolution > 0) =>
        IF roi = None
        THEN LET xs == {p[1] : p \in InputPoints}
                 ys == {p[2] : p \in InputPoints}
             IN  \E xmin \in xs, xmax \in xs, ymin \in ys, ymax \in ys :
                    /\ IsLeast(xmin, xs) /\ IsGreatest(xmax, xs)
                    /\ IsLeast(ymin, ys) /\ IsGreatest(ymax, ys)
                    /\ extrema = <<xmin, xmax, ymin, ymax>>
                    /\ xoff = FMul(Floor(FDiv(xmin, resolution)), resolution)
                    /\ xsize = FAdd(1, Floor(FDiv(FSub(xmax, xoff), resolution)))
                    /\ yoff = FMul(Ceil(FDiv(ymax, resolution)), resolution)
                    /\ ysize = FSub(1, Floor(FDiv(FSub(ymin, yoff), resolution)))
        ELSE <<xoff, yoff, xsize, ysize>> = roi /\ extrema = None

\* C1 witness: a region derived from two files, with a negative least x and
\* a greatest y off the grid lines.
C1_Witness ==
    /\ pc = "call"
    /\ roi = None
    /\ Len(clouds_list) = 2
    /\ Len(clouds_list[1]) = 1 /\ Len(clouds_list[2]) = 1
    /\ extrema[1] = -5 /\ extrema[4] = 3
    /\ clouds_list[2][1][1] = -5
    /\ resolution = 3

\* C2: the region derived from the extrema covers every point: each
\* point's cell, col = floor((x - xoff) / resolution) and row =
\* floor((yoff - y) / resolution), lies in [0, xsize) x [0, ysize), and
\* xsize >= 1, ysize >= 1.  Violated: the product floor(xmin / resolution)
\* * resolution can round above xmin, which leaves the point of least x
\* in column -1 and, when it is the only x, a region of no column.
C2_RoiCoversPoints ==
    (RoiKnown /\ roi = None /\ resolution > 0) =>
        /\ xsize >= 1
        /\ ysize >= 1
        /\ \A p \in InputPoints :
              \E col \in 0..xsize - 1, row \in 0..ysize - 1 :
                  /\ IsFloor(col, p[1] - xoff, resolution)
                  /\ IsFloor(row, yoff - p[2], resolution)

-----------------------------------------------------------------------------
(* Properties of the rasters *)

\* The radius of the call, 0 when the caller gives none (line 89).
CallRadius == IF given.radius = Omitted THEN 0 ELSE given.radius[1]

Rows == 0..ysize - 1
Cols == 0..xsize - 1

\* The point lies within the radius of the center of cell (row, col):
\* distance / resolution <= radius, with cx = xoff + (col + 1/2) resolution
\* and cy = yoff - (row + 1/2) resolution, all lengths doubled.
WithinRadius(p, row, col) ==
    LET dx == 2 * p[1] - 2 * xoff - (2 * col + 1) * resolution
        dy == 2 * p[2] - 2 * yoff + (2 * row + 1) * resolution
    IN  dx * dx + dy * dy
            <= (2 * CallRadius * resolution) * (2 * CallRadius * resolution)

\* (row, col) is the cell that encloses the point.
Encloses(p, row, col) ==
    /\ IsFloor(col, p[1] - xoff, resolution)
    /\ IsFloor(row, yoff - p[2], resolution)

\* The point contributes to the cell as section 4.2 step 2 has it.
Selected(p, row, col) ==
    IF CallRadius = 0 THEN Encloses(p, row, col) ELSE WithinRadius(p, row, col)

\* The arithmetic mean of channel ch over the points I of the cloud.
PlainMean(I, ch) ==
    Frac(SumTo([i \in 1..Len(full_cloud) |->
                   IF i \in I THEN full_cloud[i][2 + ch] ELSE 0],
               Len(full_cloud)),
         Cardinality(I))

\* The cloud without its point i.
Without(i) ==
    [j \in 1..Len(full_cloud) - 1 |->
        IF j < i THEN full_cloud[j] ELSE full_cloud[j + 1]]

\* The rasters of the cloud without its point i.
RastersWithout(i) ==
    Rasterize([Passed EXCEPT !.input_buffer = Without(i),
                             !.nb_points = Len(full_cloud) - 1])

\* C7: a single point strictly inside a cell, [[0.5, 0.5, 10.0]] with
\* resolution 1, radius 0, sigma inf and the region derived from the
\* cloud, gives a 1 x 1 x 1 raster holding 10.
SinglePointCall ==
    /\ full_cloud = << <<5, 5, 10>> >>
    /\ resolution = 10
    /\ CallRadius = 0
    /\ given.sigma \in {None, Inf}
    /\ roi = None

C7_SingleCell ==
    (pc \in {"profile", "done"} /\ SinglePointCall) =>
        /\ ret.shape = <<1, 1, 1>>
        /\ ret.data[0][0] = << <<10, 1>> >>

\* C7 as amended: the raster has two rows and one column; cell (0, 0)
\* holds 10 and cell (1, 0) holds the no-data value.
C7_SingleCellAmended ==
    (pc \in {"profile", "done"} /\ SinglePointCall) =>
        /\ ret.shape = <<2, 1, 1>>
        /\ ret.data[0][0] = << <<10, 1>> >>
        /\ ret.data[1][0] = <<NaN>>

C7_Witness == pc = "done" /\ SinglePointCall /\ given.sigma = Inf

\* The kernel has run: the two buffers hold its results.
KernelDone == pc = "reshape"

\* C5: after a rasterization, every cell with no point within the radius of
\* its center holds the no-data value in every channel of both rasters, and
\* every cell with a contributing point holds a value that is not it.
C5_NoData ==
    KernelDone =>
        \A row \in Rows, col \in Cols, ch \in 1..NbExtraColumns :
            LET idx == row * xsize + col + 1
                near == {i \in 1..Len(full_cloud) :
                            WithinRadius(full_cloud[i], row, col)}
                sel == {i \in 1..Len(full_cloud) :
                            Selected(full_cloud[i], row, col)}
            IN  /\ near = {} =>
                      raster[idx][ch] = NaN /\ raster_std[idx][ch] = NaN
                /\ sel # {} =>
                      raster[idx][ch] # NaN /\ raster_std[idx][ch] # NaN

\* C5 as amended: the cells that hold the no-data value are those with no
\* contributing point, which for radius = 0 are the cells that enclose no
\* point; the value is the one the profile declares, and the array returned
\* holds it in the same cells.
C5_NoDataAmended ==
    /\ KernelDone =>
          \A row \in Rows, col \in Cols, ch \in 1..NbExtraColumns :
              LET idx == row * xsize + col + 1
                  sel == {i \in 1..Len(full_cloud) :
                              Selected(full_cloud[i], row, col)}
              IN  /\ sel = {} =>
                        raster[idx][ch] = NaN /\ raster_std[idx][ch] = NaN
                  /\ sel # {} =>
                        raster[idx][ch] # NaN /\ raster_std[idx][ch] # NaN
    /\ pc = "done" =>
          \A row \in Rows, col \in Cols, ch \in 1..NbExtraColumns :
              LET sel == {i \in 1..Len(full_cloud) :
                              Selected(full_cloud[i], row, col)}
              IN  sel = {} <=> ret.data[row][col][ch] = profile.nodata

\* C5 witness: a returned raster with an empty cell and a cell that encloses
\* a point away from its center, radius 0.
C5_Witness ==
    /\ pc = "done"
    /\ CallRadius = 0
    /\ NbExtraColumns = 2
    /\ roi = <<0, 10, 2, 2>>
    /\ full_cloud = << <<3, 3, 10, 20>> >>
    /\ ret.data[0][0][2] # NaN
    /\ ret.data[1][1][2] = NaN

\* C6: with sigma = +infinity, which is what a call without sigma uses, each
\* populated cell holds in each channel the arithmetic mean of the values of
\* the points that contribute to it.
C6_PlainMean ==
    (KernelDone /\ given.sigma \in {None, Inf}) =>
        \A row \in Rows, col \in Cols, ch \in 1..NbExtraColumns :
            LET sel == {i \in 1..Len(full_cloud) :
                            Selected(full_cloud[i], row, col)}
            IN  sel # {} =>
                    raster[row * xsize + col + 1][ch] = PlainMean(sel, ch)

\* C6 witness: no sigma given, and the points of values 10 and 20 at
\* different distances of the center of one cell, which holds 15.
C6_Witness ==
    /\ KernelDone
    /\ given.sigma = None
    /\ full_cloud = << <<5, 5, 10>>, <<7, 7, 20>> >>
    /\ roi = <<0, 10, 1, 1>>
    /\ raster[1] = << <<15, 1>> >>

\* C8: for every radius >= 0, a point farther than the radius from every
\* cell center contributes to no cell: the rasters are those of the cloud
\* without it.
C8_RadiusExclusion ==
    KernelDone =>
        \A i \in 1..Len(full_cloud) :
            (\A row \in Rows, col \in Cols :
                ~WithinRadius(full_cloud[i], row, col))
            => /\ raster = RastersWithout(i).mean
               /\ raster_std = RastersWithout(i).std

\* C8 as amended: the same for every radius > 0; for radius = 0 the points
\* that contribute to no cell are those whose enclosing cell lies outside
\* the grid.
C8_RadiusExclusionAmended ==
    KernelDone =>
        \A i \in 1..Len(full_cloud) :
            (\A row \in Rows, col \in Cols :
                ~Selected(full_cloud[i], row, col))
            => /\ raster = RastersWithout(i).mean
               /\ raster_std = RastersWithout(i).std

\* C8 witness: radius 1, a point two cells away from the only cell and a
\* point in that cell.
C8_Witness ==
    /\ KernelDone
    /\ CallRadius = 1
    /\ roi = <<0, 10, 1, 1>>
    /\ full_cloud = << <<24, 5, 20>>, <<5, 5, 10>> >>
    /\ raster[1] = << <<10, 1>> >>

\* C10: with radius = 0, a point contributes to cell (row, col) if and only
\* if col = floor((x - xoff) / resolution) and row = floor((yoff - y) /
\* resolution): a point whose enclosing cell is in the grid contributes to
\* exactly one cell, any other point to none.
C10_NearestCell ==
    (KernelDone /\ CallRadius = 0) =>
        /\ \A row \in Rows, col \in Cols :
              Contributors(Passed, row, col)
                  = {i \in 1..Len(full_cloud) :
                        Encloses(full_cloud[i], row, col)}
        /\ \A i \in 1..Len(full_cloud) :
              LET cells == {c \in Rows \X Cols :
                               i \in Contributors(Passed, c[1], c[2])}
              IN  IF \E c \in Rows \X Cols :
                         Encloses(full_cloud[i], c[1], c[2])
                  THEN Cardinality(cells) = 1
                  ELSE cells = {}
        /\ \A row \in Rows, col \in Cols, ch \in 1..NbExtraColumns :
              LET bin == {i \in 1..Len(full_cloud) :
                             Encloses(full_cloud[i], row, col)}
                  v == raster[row * xsize + col + 1][ch]
              IN  /\ bin = {} <=> v = NaN
                  /\ (bin # {} /\ IsInf(sigma)) => v = PlainMean(bin, ch)

\* C10 witness: no radius given, a point in the cell, away from its center,
\* and a point outside the grid.
C10_Witness ==
    /\ KernelDone
    /\ given.radius = Omitted
    /\ roi = <<0, 10, 1, 1>>
    /\ full_cloud = << <<3, 3, 10>>, <<-5, 5, 20>> >>
    /\ raster[1] = << <<10, 1>> >>

-----------------------------------------------------------------------------
(* Properties of the workers *)

\* C9: for any partition of the grid into row-bands and any interleaving of
\* the workers, every cell is written by exactly one worker, the input cloud
\* is not modified, and the rasters are those of a run by one thread.
C9_Deterministic ==
    /\ pc = "workers" =>
          /\ \A i \in 1..xsize * ysize : Len(writes[i]) <= 1
          /\ full_cloud = Concatenate(clouds_list)
    /\ pc = "reshape" =>
          /\ \A i \in 1..xsize * ysize : Len(writes[i]) = 1
          /\ \A i \in 1..xsize * ysize, w \in 1..Len(bands) :
                writes[i] = <<w>> =>
                    bands[w][1] <= RowOf(Passed, i) /\ RowOf(Passed, i) < bands[w][2]
          /\ full_cloud = Concatenate(clouds_list)
          /\ raster = Rasterize(Passed).mean
          /\ raster_std = Rasterize(Passed).std

\* C9 witness: two workers with a band each have filled a grid of several
\* rows, one of them empty of points.
C9_Witness ==
    /\ pc = "reshape"
    /\ Len(bands) = 2
    /\ NumCells(bands[1]) > 0 /\ NumCells(bands[2]) > 0
    /\ writes[1] = <<1>>
    /\ writes[xsize * ysize] = <<2>>
    /\ Len(full_cloud) = 2
    /\ \E i \in 1..xsize * ysize : raster[i] = <<NaN>>
    /\ \E i \in 1..xsize * ysize : raster[i] # <<NaN>>

=============================================================================
